---- MODULE Spec2Model ----
(***************************************************************************)
(* Model of the three room-reservation CSV converters                      *)
(*   main_step1.py        (passthrough variant)                            *)
(*   main_step3.py        (display variant)                                *)
(*   main_step4_Claude.py (storage variant)                                *)
(*                                                                         *)
(* A Python str is modelled as a sequence of characters.  A character is a *)
(* one-token string; the non-ASCII characters of the source are written    *)
(* with ASCII tokens:                                                      *)
(*   "kai" "gi" "shitsu"                 the three characters of the word  *)
(*                                       for "conference room"             *)
(*   "(1)" .. "(10)"                     the circled digits                *)
(*   "batsu"                             the cross mark                    *)
(*   "sen" "dai" "gou" "dou" "chou" "sha"  first facility name             *)
(*   "fslash" "sen" "dai" "chi" "hou" "shin" "kou" "ji" "mu" "sho"         *)
(*                                       second facility name              *)
(*   "hajime" "shi" "nichi" "toki" "koku" "owari" "ryou"                   *)
(*                                       characters of the column names    *)
(*   "bom"                               the byte-order mark U+FEFF        *)
(* A CSV row is a sequence of fields, the parsed file a sequence of rows.  *)
(***************************************************************************)
EXTENDS Integers, Sequences, FiniteSets, TLC

VARIABLES
    variant,             \* which of the three scripts runs
    input_file,          \* the input path's file: exists, decodable_by, head, rows
    pc,                  \* position in convert_csv
    lines,               \* lines = list(reader)
    i,                   \* number of rows of lines[1:] the loop has consumed
    current_kaigishitsu, \* the running section label
    result_rows,         \* the rows to be written
    result_src,          \* for each data row of result_rows, its index in lines[1:]
    last_event,          \* what the loop did with the row it consumed last
    outcome,             \* the message convert_csv ended with
    output_file,         \* the file at output_file_path: exists, rows
    csv_c,               \* the decoded text: leading U+FEFF characters, rows of the rest
    entry,               \* how the run began: a call of convert_csv, or the script's main block
    stale_output,        \* a file was at output_file_path before the run
    validator,           \* whether validate_datetime_format was called
    dt_in,               \* argument of a fix_time_format call
    dt_out               \* its result, or None before the call

vars == <<variant, input_file, pc, lines, i, current_kaigishitsu, result_rows,
          result_src, last_event, outcome, output_file, csv_c, entry, stale_output,
          validator, dt_in, dt_out>>

convVars == <<variant, input_file, pc, lines, i, current_kaigishitsu, result_rows,
              result_src, last_event, outcome, output_file, csv_c, entry,
              stale_output, validator>>

mainVars == <<entry, stale_output, validator>>

\* Python's None, as a value comparable with a str
None == <<"None">>

\* csv_c = None
NoText == [head |-> <<"None">>, rows |-> <<>>]

(***************************************************************************)
(* Bounds of the model.                                                    *)
(***************************************************************************)
MaxRows == 3

\* at most this many U+FEFF characters at the start of a decoded text
MaxBom == 2

(***************************************************************************)
(* str operations.                                                         *)
(***************************************************************************)
Whitespace == {" ", "\t"}

Digits == <<"0", "1", "2", "3", "4", "5", "6", "7", "8", "9">>

IsDigit(c) == \E k \in 1..10 : Digits[k] = c

DigitVal(c) == (CHOOSE k \in 1..10 : Digits[k] = c) - 1

\* sub in s
Contains(s, sub) ==
    \E k \in 1..(Len(s) - Len(sub) + 1) : SubSeq(s, k, k + Len(sub) - 1) = sub

RECURSIVE LStrip(_)
LStrip(s) ==
    IF s # <<>> /\ Head(s) \in Whitespace THEN LStrip(Tail(s)) ELSE s

RECURSIVE RStrip(_)
RStrip(s) ==
    IF s # <<>> /\ s[Len(s)] \in Whitespace
    THEN RStrip(SubSeq(s, 1, Len(s) - 1))
    ELSE s

\* s.strip()
Strip(s) == RStrip(LStrip(s))

\* s.replace(old, new): leftmost, non-overlapping occurrences
RECURSIVE Replace(_, _, _)
Replace(s, old, new) ==
    IF Len(s) < Len(old) THEN s
    ELSE IF SubSeq(s, 1, Len(old)) = old
         THEN new \o Replace(SubSeq(s, Len(old) + 1, Len(s)), old, new)
         ELSE <<Head(s)>> \o Replace(Tail(s), old, new)

\* s.split(' ')[0]
RECURSIVE BeforeFirstSpace(_)
BeforeFirstSpace(s) ==
    IF s = <<>> \/ Head(s) = " " THEN <<>>
    ELSE <<Head(s)>> \o BeforeFirstSpace(Tail(s))

\* lst.index(x) as a 0-based index, -1 standing for ValueError
ColumnIndex(lst, x) ==
    IF \E k \in 1..Len(lst) : lst[k] = x
    THEN (CHOOSE k \in 1..Len(lst) : lst[k] = x /\ \A j \in 1..(k - 1) : lst[j] # x) - 1
    ELSE -1

\* row[k] raises IndexError unless -len(row) <= k < len(row)
PyIndexOK(row, k) == -Len(row) <= k /\ k < Len(row)

PyItem(row, k) == IF k < 0 THEN row[Len(row) + k + 1] ELSE row[k + 1]

(***************************************************************************)
(* String literals of the source.                                          *)
(***************************************************************************)
KAIGISHITSU == <<"kai", "gi", "shitsu">>

KAISHI_NICHI == <<"hajime", "shi", "nichi">>

KAISHI_JIKAN == <<"hajime", "shi", "toki", "koku">>

SHURYO_NICHI == <<"owari", "ryou", "nichi">>

SHURYO_JIKAN == <<"owari", "ryou", "toki", "koku">>

PURPOSE_DETAIL == <<"ri", "you", "moku", "teki", "shou", "sai">>

FACILITY_1 == <<"sen", "dai", "gou", "dou", "chou", "sha">>

FACILITY_2 == <<"fslash", "sen", "dai", "chi", "hou", "shin", "kou", "ji", "mu", "sho">>

BATSU == <<"batsu">>

CircledDigits ==
    <<"(1)", "(2)", "(3)", "(4)", "(5)", "(6)", "(7)", "(8)", "(9)", "(10)">>

ENCODINGS_TO_TRY == <<"utf-8", "shift_jis", "cp932">>

\* the chain of ten .replace calls: (1)->1 ... (9)->9, (10)->10
RECURSIVE ReplaceFrom(_, _)
ReplaceFrom(s, k) ==
    IF k > 10 THEN s
    ELSE ReplaceFrom(
            Replace(s, <<CircledDigits[k]>>,
                    IF k = 10 THEN <<"1", "0">> ELSE <<Digits[k + 1]>>),
            k + 1)

replace_circled(s) == ReplaceFrom(s, 1)

strip_facility(s) == Replace(Replace(s, FACILITY_1, <<>>), FACILITY_2, <<>>)

(***************************************************************************)
(* datetime: strptime, date + timedelta(days=1), strftime.                 *)
(***************************************************************************)
IsLeap(y) == y % 4 = 0 /\ (y % 100 # 0 \/ y % 400 = 0)

DaysInMonth(y, m) ==
    IF m = 2 THEN (IF IsLeap(y) THEN 29 ELSE 28)
    ELSE IF m \in {4, 6, 9, 11} THEN 30 ELSE 31

DaysBeforeYear(y) ==
    (y - 1) * 365 + ((y - 1) \div 4) - ((y - 1) \div 100) + ((y - 1) \div 400)

RECURSIVE DaysBeforeMonth(_, _)
DaysBeforeMonth(y, m) ==
    IF m = 1 THEN 0 ELSE DaysBeforeMonth(y, m - 1) + DaysInMonth(y, m - 1)

\* date.toordinal()
Ymd2Ord(y, m, d) == DaysBeforeYear(y) + DaysBeforeMonth(y, m) + d

\* date.fromordinal(n)
Ord2Ymd(n) ==
    LET n0   == n - 1
        n400 == n0 \div 146097
        r400 == n0 % 146097
        n100 == r400 \div 36524
        r100 == r400 % 36524
        n4   == r100 \div 1461
        r4   == r100 % 1461
        n1   == r4 \div 365
        r1   == r4 % 365
        year == n400 * 400 + 1 + n100 * 100 + n4 * 4 + n1
        leap == n1 = 3 /\ (n4 # 24 \/ n100 = 3)
        mon0 == (r1 + 50) \div 32
        pre0 == DaysBeforeMonth(IF leap THEN 2000 ELSE 2001, mon0)
        month == IF pre0 > r1 THEN mon0 - 1 ELSE mon0
        pre  == DaysBeforeMonth(IF leap THEN 2000 ELSE 2001, month)
    IN  IF n1 = 4 \/ n100 = 4
        THEN [y |-> year - 1, m |-> 12, d |-> 31]
        ELSE [y |-> year, m |-> month, d |-> r1 - pre + 1]

\* date.max.toordinal(): date + timedelta raises OverflowError beyond it
MaxOrdinal == Ymd2Ord(9999, 12, 31)

NumVal(s) ==
    IF Len(s) = 1 THEN DigitVal(s[1])
    ELSE IF Len(s) = 2 THEN DigitVal(s[1]) * 10 + DigitVal(s[2])
    ELSE DigitVal(s[1]) * 1000 + DigitVal(s[2]) * 100
         + DigitVal(s[3]) * 10 + DigitVal(s[4])

\* strftime %m %d %H %M
Pad2(n) == <<Digits[(n \div 10) + 1], Digits[(n % 10) + 1]>>

\* strftime %Y for a year of four digits
Pad4(n) ==
    <<Digits[(n \div 1000) + 1], Digits[((n \div 100) % 10) + 1],
      Digits[((n \div 10) % 10) + 1], Digits[(n % 10) + 1]>>

\* the regular expressions strptime builds for the directives
YearTok(t) == Len(t) = 4 /\ \A k \in 1..4 : IsDigit(t[k])

MonthTok(t) ==
    \/ Len(t) = 2 /\ t[1] = "1" /\ t[2] \in {"0", "1", "2"}
    \/ Len(t) = 2 /\ t[1] = "0" /\ IsDigit(t[2]) /\ t[2] # "0"
    \/ Len(t) = 1 /\ IsDigit(t[1]) /\ t[1] # "0"

DayTok(t) ==
    \/ Len(t) = 2 /\ t[1] = "3" /\ t[2] \in {"0", "1"}
    \/ Len(t) = 2 /\ t[1] \in {"1", "2"} /\ IsDigit(t[2])
    \/ Len(t) = 2 /\ t[1] = "0" /\ IsDigit(t[2]) /\ t[2] # "0"
    \/ Len(t) = 1 /\ IsDigit(t[1]) /\ t[1] # "0"
    \/ Len(t) = 2 /\ t[1] = " " /\ IsDigit(t[2]) /\ t[2] # "0"

HourTok(t) ==
    \/ Len(t) = 2 /\ t[1] = "2" /\ t[2] \in {"0", "1", "2", "3"}
    \/ Len(t) = 2 /\ t[1] \in {"0", "1"} /\ IsDigit(t[2])
    \/ Len(t) = 1 /\ IsDigit(t[1])

MinuteTok(t) ==
    \/ Len(t) = 2 /\ t[1] \in {"0", "1", "2", "3", "4", "5"} /\ IsDigit(t[2])
    \/ Len(t) = 1 /\ IsDigit(t[1])

DayNum(t) == IF t[1] = " " THEN DigitVal(t[2]) ELSE NumVal(t)

\* the ways s splits as Y "/" m "/" d
DateSplits(s) ==
    {p \in {1, 2} \X {1, 2} :
        /\ Len(s) = 6 + p[1] + p[2]
        /\ s[5] = "/"
        /\ s[6 + p[1]] = "/"
        /\ YearTok(SubSeq(s, 1, 4))
        /\ MonthTok(SubSeq(s, 6, 5 + p[1]))
        /\ DayTok(SubSeq(s, 7 + p[1], 6 + p[1] + p[2]))}

ValidYmd(y, m, d) == y >= 1 /\ d <= DaysInMonth(y, m)

\* datetime.strptime(s, '%Y/%m/%d'); ok = FALSE stands for ValueError
ParseDate(s) ==
    IF DateSplits(s) = {} THEN [ok |-> FALSE]
    ELSE LET p == CHOOSE q \in DateSplits(s) : TRUE
             y == NumVal(SubSeq(s, 1, 4))
             m == NumVal(SubSeq(s, 6, 5 + p[1]))
             d == DayNum(SubSeq(s, 7 + p[1], 6 + p[1] + p[2]))
         IN  IF ValidYmd(y, m, d)
             THEN [ok |-> TRUE, y |-> y, m |-> m, d |-> d]
             ELSE [ok |-> FALSE]

\* the ways s splits as Y "/" m "/" d whitespace+ H ":" M
DateTimeSplits(s) ==
    {p \in {1, 2} \X {1, 2} \X (1..Len(s)) \X {1, 2} \X {1, 2} :
        LET a == 6 + p[1]               \* position of the second "/"
            b == a + p[2]               \* last character of the day
            c == b + p[3]               \* last whitespace character
            e == c + p[4] + 1           \* position of ":"
        IN  /\ Len(s) = e + p[5]
            /\ s[5] = "/"
            /\ s[a] = "/"
            /\ s[e] = ":"
            /\ YearTok(SubSeq(s, 1, 4))
            /\ MonthTok(SubSeq(s, 6, a - 1))
            /\ DayTok(SubSeq(s, a + 1, b))
            /\ \A k \in (b + 1)..c : s[k] \in Whitespace
            /\ HourTok(SubSeq(s, c + 1, e - 1))
            /\ MinuteTok(SubSeq(s, e + 1, Len(s)))}

\* datetime.strptime(s, '%Y/%m/%d %H:%M'); ok = FALSE stands for ValueError
ParseDateTime(s) ==
    IF DateTimeSplits(s) = {} THEN [ok |-> FALSE]
    ELSE LET p == CHOOSE q \in DateTimeSplits(s) : TRUE
             a == 6 + p[1]
             b == a + p[2]
             c == b + p[3]
             e == c + p[4] + 1
             y == NumVal(SubSeq(s, 1, 4))
             m == NumVal(SubSeq(s, 6, a - 1))
             d == DayNum(SubSeq(s, a + 1, b))
         IN  IF ValidYmd(y, m, d)
             THEN [ok |-> TRUE, y |-> y, m |-> m, d |-> d,
                   H |-> NumVal(SubSeq(s, c + 1, e - 1)),
                   M |-> NumVal(SubSeq(s, e + 1, Len(s)))]
             ELSE [ok |-> FALSE]

TIME_2400 == <<" ", "2", "4", ":", "0", "0">>

\* next_day.strftime('%Y/%m/%d 00:00')
FormatNextDay(t) ==
    Pad4(t.y) \o <<"/">> \o Pad2(t.m) \o <<"/">> \o Pad2(t.d)
        \o <<" ", "0", "0", ":", "0", "0">>

fix_time_format_no_advance(datetime_str) ==
    Replace(datetime_str, TIME_2400, <<" ", "0", "0", ":", "0", "0">>)

fix_time_format(datetime_str) ==
    IF Contains(datetime_str, TIME_2400)
    THEN LET date_obj == ParseDate(BeforeFirstSpace(datetime_str))
         IN  IF ~date_obj.ok THEN datetime_str
             ELSE LET o == Ymd2Ord(date_obj.y, date_obj.m, date_obj.d) + 1
                  IN  IF o > MaxOrdinal THEN datetime_str
                      ELSE FormatNextDay(Ord2Ymd(o))
    ELSE datetime_str

format_for_supabase_no_fold(datetime_str) ==
    LET fixed_datetime == datetime_str
        dt == ParseDateTime(fixed_datetime)
    IN  IF ~dt.ok THEN datetime_str
        ELSE Pad4(dt.y) \o <<"-">> \o Pad2(dt.m) \o <<"-">> \o Pad2(dt.d)
             \o <<"T">> \o Pad2(dt.H) \o <<":">> \o Pad2(dt.M)
             \o <<":", "0", "0", "+", "0", "9", ":", "0", "0">>

format_for_supabase_blank_on_error(datetime_str) ==
    LET fixed_datetime == fix_time_format(datetime_str)
        dt == ParseDateTime(fixed_datetime)
    IN  IF ~dt.ok THEN <<>>
        ELSE Pad4(dt.y) \o <<"-">> \o Pad2(dt.m) \o <<"-">> \o Pad2(dt.d)
             \o <<"T">> \o Pad2(dt.H) \o <<":">> \o Pad2(dt.M)
             \o <<":", "0", "0", "+", "0", "9", ":", "0", "0">>

format_for_supabase(datetime_str) ==
    LET fixed_datetime == fix_time_format(datetime_str)
        dt == ParseDateTime(fixed_datetime)
    IN  IF ~dt.ok THEN datetime_str
        ELSE Pad4(dt.y) \o <<"-">> \o Pad2(dt.m) \o <<"-">> \o Pad2(dt.d)
             \o <<"T">> \o Pad2(dt.H) \o <<":">> \o Pad2(dt.M)
             \o <<":", "0", "0", "+", "0", "9", ":", "0", "0">>

(***************************************************************************)
(* The inputs the model draws from.                                        *)
(***************************************************************************)
X == <<"x">>

ROOM_A == <<" ", "kai", "gi", "shitsu", "(1)", " ">>

ROOM_B == FACILITY_1 \o FACILITY_2 \o <<" ">> \o KAIGISHITSU

DATE_1 == <<"2", "0", "2", "4", "/", "0", "3", "/", "3", "1">>

TIME_0900 == <<"0", "9", ":", "0", "0">>

TIME_24 == <<"2", "4", ":", "0", "0">>

PURPOSE_1 == <<"(10)", "x">>

H_FULL ==
    <<X, X, KAISHI_NICHI, KAISHI_JIKAN, SHURYO_NICHI, SHURYO_JIKAN, PURPOSE_DETAIL>>

H_NOPURPOSE == <<X, X, KAISHI_NICHI, KAISHI_JIKAN, SHURYO_NICHI, SHURYO_JIKAN>>

H_MISSING == <<X, X, KAISHI_NICHI, KAISHI_JIKAN, SHURYO_NICHI>>

Headers == {H_FULL, H_NOPURPOSE, H_MISSING}

R_EMPTY == <<>>

R_HDR_A == <<X, ROOM_A>>

R_HDR_B == <<X, ROOM_B, <<" ">>, X>>

R_DATA == <<X, KAIGISHITSU, DATE_1, TIME_0900, DATE_1, TIME_24, PURPOSE_1>>

R_CIRC == <<X, X, <<"(1)">>, TIME_0900, DATE_1, TIME_0900, PURPOSE_1, X>>

R_SHORT == <<X, X, DATE_1, TIME_0900>>

R_UNMATCHED == <<X, X>>

Rows == {R_EMPTY, R_HDR_A, R_HDR_B, R_DATA, R_CIRC, R_SHORT, R_UNMATCHED}

RowSeqs == UNION {[1..n -> Rows] : n \in 0..MaxRows}

\* what csv.reader yields for the file's text: nothing, or a header and rows
ParsedInputs == {<<>>} \cup {<<h>> \o r : h \in Headers, r \in RowSeqs}

\* the encodings that decode the bytes of a readable file
DecodableCases == {{"shift_jis", "cp932"}}

\* head: the U+FEFF characters the decoded text begins with; rows: what
\* csv.reader yields for the text after them
InputFiles ==
    {[exists |-> FALSE, decodable_by |-> {}, head |-> <<>>, rows |-> <<>>],
     [exists |-> TRUE, decodable_by |-> {}, head |-> <<>>, rows |-> <<>>]}
    \cup {[exists |-> TRUE, decodable_by |-> e, head |-> <<>>, rows |-> r] :
            e \in DecodableCases, r \in ParsedInputs}

Variants == {"passthrough", "display", "storage"}

(***************************************************************************)
(* convert_csv.                                                            *)
(***************************************************************************)
InitialLabelDefault == X

\* current_kaigishitsu = None
InitialLabel == None

Init ==
    /\ variant \in Variants
    /\ input_file \in InputFiles
    /\ pc = "read"
    /\ lines = <<>>
    /\ i = 0
    /\ current_kaigishitsu = InitialLabel
    /\ result_rows = <<>>
    /\ result_src = <<>>
    /\ last_event = "none"
    /\ outcome = "none"
    /\ output_file = [exists |-> FALSE, rows |-> <<>>]
    /\ csv_c = NoText
    /\ entry = "convert_csv"
    /\ stale_output = FALSE
    /\ validator = "not_run"
    /\ dt_in = <<>>
    /\ dt_out = None

\* open(input_file_path, 'r', encoding=enc) and f_in.read() succeed
OpensAndDecodes(f, enc) == f.exists /\ enc \in f.decodable_by

\* the for loop over ENCODINGS_TO_TRY: the first encoding that reads the file;
\* both except clauses go on to the next encoding
detected_encoding(f) ==
    IF \E k \in 1..Len(ENCODINGS_TO_TRY) : OpensAndDecodes(f, ENCODINGS_TO_TRY[k])
    THEN ENCODINGS_TO_TRY[CHOOSE k \in 1..Len(ENCODINGS_TO_TRY) :
            /\ OpensAndDecodes(f, ENCODINGS_TO_TRY[k])
            /\ \A j \in 1..(k - 1) : ~OpensAndDecodes(f, ENCODINGS_TO_TRY[j])]
    ELSE "None"

\* if csv_c is None: the message for no encoding having read the file
ReadInputFails ==
    /\ pc = "read"
    /\ detected_encoding(input_file) = "None"
    /\ pc' = "done"
    /\ outcome' = "unreadable"
    /\ UNCHANGED <<variant, input_file, lines, i, current_kaigishitsu, result_rows,
                   result_src, last_event, output_file, dt_in, dt_out, csv_c, mainVars>>

BOM == "bom"

lstrip_bom_once(text) ==
    IF text.head # <<>> /\ text.head[1] = BOM
    THEN [text EXCEPT !.head = Tail(text.head)]
    ELSE text

\* raw_content.lstrip('\ufeff'), under if raw_content.startswith('\ufeff')
RECURSIVE lstrip_bom(_)
lstrip_bom(text) ==
    IF text.head # <<>> /\ text.head[1] = BOM
    THEN lstrip_bom([text EXCEPT !.head = Tail(text.head)])
    ELSE text

\* f_in.read() under the detected encoding, then the removal of the BOM
decoded_text(f) == lstrip_bom([head |-> f.head, rows |-> f.rows])

\* list(csv.reader(io.StringIO(csv_c))): characters before the first field
\* belong to that field
csv_reader(text) ==
    IF text.head = <<>> THEN text.rows
    ELSE IF text.rows = <<>> THEN << <<text.head>> >>
    ELSE IF text.rows[1] = <<>> THEN [text.rows EXCEPT ![1] = <<text.head>>]
    ELSE [text.rows EXCEPT ![1][1] = text.head \o @]

\* if not lines
ReadInputEmpty ==
    /\ pc = "read"
    /\ detected_encoding(input_file) # "None"
    /\ csv_reader(decoded_text(input_file)) = <<>>
    /\ csv_c' = decoded_text(input_file)
    /\ pc' = "done"
    /\ outcome' = "empty"
    /\ UNCHANGED <<variant, input_file, lines, i, current_kaigishitsu, result_rows,
                   result_src, last_event, output_file, dt_in, dt_out, mainVars>>

ReadInputOk ==
    /\ pc = "read"
    /\ detected_encoding(input_file) # "None"
    /\ csv_reader(decoded_text(input_file)) # <<>>
    /\ csv_c' = decoded_text(input_file)
    /\ lines' = csv_reader(csv_c')
    /\ pc' = "header"
    /\ UNCHANGED <<variant, input_file, i, current_kaigishitsu, result_rows,
                   result_src, last_event, outcome, output_file, dt_in, dt_out, mainVars>>

KAIGISHITSU_MEI == <<"kai", "gi", "shitsu", "mei">>

new_csv_header(v) ==
    IF v = "display"
    THEN <<KAIGISHITSU_MEI,
           <<"hajime", "shi", "nichi", "toki">>,
           <<"owari", "ryou", "nichi", "toki">>,
           PURPOSE_DETAIL>>
    ELSE <<<<"r", "o", "o", "m", "_", "n", "a", "m", "e">>,
           <<"s", "t", "a", "r", "t", "_", "d", "a", "t", "e", "t", "i", "m", "e">>,
           <<"e", "n", "d", "_", "d", "a", "t", "e", "t", "i", "m", "e">>,
           <<"p", "u", "r", "p", "o", "s", "e", "_", "d", "e", "t", "a", "i", "l">>>>

kaishi_nichi_idx == ColumnIndex(lines[1], KAISHI_NICHI)

kaishi_jikan_idx == ColumnIndex(lines[1], KAISHI_JIKAN)

shuryo_nichi_idx == ColumnIndex(lines[1], SHURYO_NICHI)

shuryo_jikan_idx == ColumnIndex(lines[1], SHURYO_JIKAN)

MissingRequiredStartOnly(orig_header) ==
    ColumnIndex(orig_header, KAISHI_NICHI) = -1

\* one of the four orig_header.index calls raises ValueError
MissingRequired(orig_header) ==
    {name \in {KAISHI_NICHI, KAISHI_JIKAN, SHURYO_NICHI, SHURYO_JIKAN} :
        ColumnIndex(orig_header, name) = -1} # {}

\* header_row = lines[0]; header_row.insert(0, ...): lines[0] is the same list
HeaderPassthrough ==
    /\ pc = "header"
    /\ variant = "passthrough"
    /\ lines' = [lines EXCEPT ![1] = <<KAIGISHITSU_MEI>> \o lines[1]]
    /\ result_rows' = <<<<KAIGISHITSU_MEI>> \o lines[1]>>
    /\ pc' = "loop"
    /\ UNCHANGED <<variant, input_file, i, current_kaigishitsu, result_src,
                   last_event, outcome, output_file, dt_in, dt_out, csv_c, mainVars>>

HeaderSchema ==
    /\ pc = "header"
    /\ variant # "passthrough"
    /\ ~MissingRequired(lines[1])
    /\ result_rows' = <<new_csv_header(variant)>>
    /\ pc' = "loop"
    /\ UNCHANGED <<variant, input_file, lines, i, current_kaigishitsu, result_src,
                   last_event, outcome, output_file, dt_in, dt_out, csv_c, mainVars>>

HeaderMissingColumn ==
    /\ pc = "header"
    /\ variant # "passthrough"
    /\ MissingRequired(lines[1])
    /\ result_rows' = <<new_csv_header(variant)>>
    /\ pc' = "done"
    /\ outcome' = "missing_column"
    /\ UNCHANGED <<variant, input_file, lines, i, current_kaigishitsu, result_src,
                   last_event, output_file, dt_in, dt_out, csv_c, mainVars>>

\* the row the loop consumes next: enumerate(lines[1:])
NextRow == lines[i + 2]

InLoop == pc = "loop" /\ i < Len(lines) - 1

IsSectionHeaderNoStrip(row) ==
    /\ Len(row) > 1
    /\ Contains(row[2], KAIGISHITSU)
    /\ (IF Len(row) <= 2 THEN TRUE ELSE row[3] = <<>>)

\* len(row) > 1 and '...' in row[1] and (len(row) <= 2 or not row[2].strip())
IsSectionHeader(row) ==
    /\ Len(row) > 1
    /\ Contains(row[2], KAIGISHITSU)
    /\ (IF Len(row) <= 2 THEN TRUE ELSE Strip(row[3]) = <<>>)

\* truthiness of current_kaigishitsu
LabelSet(cur) == cur # None /\ cur # <<>>

NewLabelKeepFirst(cur, row) == IF LabelSet(cur) THEN cur ELSE Strip(row[2])

\* current_kaigishitsu = row[1].strip()
NewLabel(cur, row) == Strip(row[2])

\* current_kaigishitsu and len(row) > 2 and row[2].strip()
IsDataRow(cur, row) ==
    /\ LabelSet(cur)
    /\ Len(row) > 2
    /\ Strip(row[3]) # <<>>

\* none of the four row[..._idx] reads raises IndexError
IndicesInRange(row) ==
    /\ PyIndexOK(row, kaishi_nichi_idx)
    /\ PyIndexOK(row, kaishi_jikan_idx)
    /\ PyIndexOK(row, shuryo_nichi_idx)
    /\ PyIndexOK(row, shuryo_jikan_idx)

start_datetime_str(row) ==
    PyItem(row, kaishi_nichi_idx) \o <<" ">> \o PyItem(row, kaishi_jikan_idx)

end_datetime_str(row) ==
    PyItem(row, shuryo_nichi_idx) \o <<" ">> \o PyItem(row, shuryo_jikan_idx)

\* new_row = row[:]; new_row.insert(0, current_kaigishitsu); every cell replaced
passthrough_row(cur, row) ==
    LET new_row == <<cur>> \o row
    IN  [j \in 1..Len(new_row) |-> replace_circled(new_row[j])]

purpose_detail_final_index == ColumnIndex(new_csv_header("display"), PURPOSE_DETAIL)

display_finish_keep_purpose(r0) ==
    LET r1 == IF Len(r0) > 0
              THEN [r0 EXCEPT ![1] = strip_facility(r0[1])]
              ELSE r0
    IN  [j \in 1..Len(r1) |-> replace_circled(r1[j])]

\* the tail of processed_row's construction, from the facility names on
display_finish(r0) ==
    LET r1 == IF Len(r0) > 0
              THEN [r0 EXCEPT ![1] = strip_facility(r0[1])]
              ELSE r0
        r2 == [j \in 1..Len(r1) |-> replace_circled(r1[j])]
    IN  IF purpose_detail_final_index # -1 /\ purpose_detail_final_index < Len(r2)
        THEN [r2 EXCEPT ![purpose_detail_final_index + 1] = BATSU]
        ELSE r2

display_row_no_default(orig_header, cur, row) ==
    LET purpose_detail_orig_idx == ColumnIndex(orig_header, PURPOSE_DETAIL)
        base == <<cur, start_datetime_str(row), end_datetime_str(row)>>
    IN  display_finish(
            IF purpose_detail_orig_idx = -1 THEN base
            ELSE IF purpose_detail_orig_idx < Len(row)
                 THEN Append(base, PyItem(row, purpose_detail_orig_idx))
                 ELSE Append(base, <<>>))

\* processed_row of main_step3
display_row(orig_header, cur, row) ==
    LET purpose_detail_orig_idx == ColumnIndex(orig_header, PURPOSE_DETAIL)
        base == <<cur, start_datetime_str(row), end_datetime_str(row)>>
    IN  display_finish(
            IF purpose_detail_orig_idx = -1 THEN Append(base, <<>>)
            ELSE IF purpose_detail_orig_idx < Len(row)
                 THEN Append(base, PyItem(row, purpose_detail_orig_idx))
                 ELSE Append(base, <<>>))

\* processed_row of main_step4_Claude
storage_row(cur, row) ==
    LET clean_room_name == replace_circled(Strip(strip_facility(cur)))
    IN  <<clean_room_name,
          format_for_supabase(start_datetime_str(row)),
          format_for_supabase(end_datetime_str(row)),
          BATSU>>

\* if not row: continue
SkipEmptyRow ==
    /\ InLoop
    /\ NextRow = <<>>
    /\ i' = i + 1
    /\ last_event' = "empty"
    /\ UNCHANGED <<variant, input_file, pc, lines, current_kaigishitsu, result_rows,
                   result_src, outcome, output_file, dt_in, dt_out, csv_c, mainVars>>

SectionHeaderRow ==
    /\ InLoop
    /\ NextRow # <<>>
    /\ IsSectionHeader(NextRow)
    /\ current_kaigishitsu' = NewLabel(current_kaigishitsu, NextRow)
    /\ i' = i + 1
    /\ last_event' = "section"
    /\ UNCHANGED <<variant, input_file, pc, lines, result_rows, result_src, outcome,
                   output_file, dt_in, dt_out, csv_c, mainVars>>

IsData ==
    /\ InLoop
    /\ NextRow # <<>>
    /\ ~IsSectionHeader(NextRow)
    /\ IsDataRow(current_kaigishitsu, NextRow)

Emit(processed_row) ==
    /\ result_rows' = Append(result_rows, processed_row)
    /\ result_src' = Append(result_src, i)
    /\ i' = i + 1
    /\ last_event' = "data"
    /\ UNCHANGED <<variant, input_file, pc, lines, current_kaigishitsu, outcome,
                   output_file, dt_in, dt_out, csv_c, mainVars>>

EmitPassthrough ==
    /\ IsData
    /\ variant = "passthrough"
    /\ Emit(passthrough_row(current_kaigishitsu, NextRow))

EmitDisplay ==
    /\ IsData
    /\ variant = "display"
    /\ IndicesInRange(NextRow)
    /\ Emit(display_row(lines[1], current_kaigishitsu, NextRow))

EmitStorage ==
    /\ IsData
    /\ variant = "storage"
    /\ IndicesInRange(NextRow)
    /\ Emit(storage_row(current_kaigishitsu, NextRow))

SkipIndexErrorBreak ==
    /\ IsData
    /\ variant # "passthrough"
    /\ ~IndicesInRange(NextRow)
    /\ i' = Len(lines) - 1
    /\ last_event' = "index_error"
    /\ UNCHANGED <<variant, input_file, pc, lines, current_kaigishitsu, result_rows,
                   result_src, outcome, output_file, dt_in, dt_out, csv_c, mainVars>>

\* except IndexError: continue
SkipIndexError ==
    /\ IsData
    /\ variant # "passthrough"
    /\ ~IndicesInRange(NextRow)
    /\ i' = i + 1
    /\ last_event' = "index_error"
    /\ UNCHANGED <<variant, input_file, pc, lines, current_kaigishitsu, result_rows,
                   result_src, outcome, output_file, dt_in, dt_out, csv_c, mainVars>>

\* neither if matches
SkipUnmatched ==
    /\ InLoop
    /\ NextRow # <<>>
    /\ ~IsSectionHeader(NextRow)
    /\ ~IsDataRow(current_kaigishitsu, NextRow)
    /\ i' = i + 1
    /\ last_event' = "unmatched"
    /\ UNCHANGED <<variant, input_file, pc, lines, current_kaigishitsu, result_rows,
                   result_src, outcome, output_file, dt_in, dt_out, csv_c, mainVars>>

LoopDone == pc = "loop" /\ i = Len(lines) - 1

NoDataFoundStrict(rows) == Len(rows) < 1

\* if len(result_rows) <= 1
NoDataFound(rows) == Len(rows) <= 1

FinishNoData ==
    /\ LoopDone
    /\ NoDataFound(result_rows)
    /\ pc' = "done"
    /\ outcome' = "no_data"
    /\ UNCHANGED <<variant, input_file, lines, i, current_kaigishitsu, result_rows,
                   result_src, last_event, output_file, dt_in, dt_out, csv_c, mainVars>>

\* writer.writerows(result_rows)
WriteOutput ==
    /\ LoopDone
    /\ ~NoDataFound(result_rows)
    /\ output_file' = [exists |-> TRUE, rows |-> result_rows]
    /\ pc' = "done"
    /\ outcome' = "written"
    /\ UNCHANGED <<variant, input_file, lines, i, current_kaigishitsu, result_rows,
                   result_src, last_event, dt_in, dt_out, csv_c, mainVars>>

Next ==
    \/ ReadInputFails
    \/ ReadInputEmpty
    \/ ReadInputOk
    \/ HeaderPassthrough
    \/ HeaderSchema
    \/ HeaderMissingColumn
    \/ SkipEmptyRow
    \/ SectionHeaderRow
    \/ EmitPassthrough
    \/ EmitDisplay
    \/ EmitStorage
    \/ SkipIndexError
    \/ SkipUnmatched
    \/ FinishNoData
    \/ WriteOutput

Spec == Init /\ [][Next]_vars

(***************************************************************************)
(* fix_time_format on its own: the argument is drawn, one call applies it. *)
(***************************************************************************)
FixYears == {1000, 1999, 2000, 2023, 2024, 2100, 9999}

DateStr(y, m, d) == Pad4(y) \o <<"/">> \o Pad2(m) \o <<"/">> \o Pad2(d)

FixInputs ==
    {DateStr(y, m, d) \o <<" ">> \o t :
        y \in FixYears, m \in 1..12, d \in 1..31, t \in {TIME_24, TIME_0900}}
    \cup {<<>>, X, TIME_24, DATE_1 \o TIME_24, DATE_1}

InitFix ==
    /\ variant = "storage"
    /\ input_file = [exists |-> FALSE, decodable_by |-> {}, head |-> <<>>, rows |-> <<>>]
    /\ pc = "idle"
    /\ lines = <<>>
    /\ i = 0
    /\ current_kaigishitsu = None
    /\ result_rows = <<>>
    /\ result_src = <<>>
    /\ last_event = "none"
    /\ outcome = "none"
    /\ output_file = [exists |-> FALSE, rows |-> <<>>]
    /\ csv_c = NoText
    /\ entry = "convert_csv"
    /\ stale_output = FALSE
    /\ validator = "not_run"
    /\ dt_in \in FixInputs
    /\ dt_out = None

CallFixTimeFormat ==
    /\ pc = "idle"
    /\ dt_out = None
    /\ dt_out' = fix_time_format(dt_in)
    /\ UNCHANGED <<convVars, dt_in>>

NextFix == CallFixTimeFormat

SpecFix == InitFix /\ [][NextFix]_vars

(***************************************************************************)
(* The storage variant on dated rows: a section header, a data row whose   *)
(* four datetime fields are drawn, and a further data row.                 *)
(***************************************************************************)
DateYears == {1000, 2024, 9999}

DateMonths == {1, 2, 12}

DateDays == {1, 28, 29, 30, 31}

DateHours == {0, 9, 23, 24}

DateMinutes == {0, 5, 59, 60}

TimeStr(h, m) == Pad2(h) \o <<":">> \o Pad2(m)

\* the start date and time fields of the drawn row
StartFields ==
    {<<DateStr(y, m, d), TimeStr(h, n)>> :
        y \in DateYears, m \in DateMonths, d \in DateDays,
        h \in DateHours, n \in DateMinutes}

\* the end date and time fields of the drawn row
EndFields ==
    {<<DATE_1, TIME_24>>, <<DateStr(9999, 12, 31), TIME_24>>,
     <<DateStr(2024, 2, 29), TimeStr(23, 59)>>, <<DATE_1, X>>}

DatedRow(s, e) == <<X, X, s[1], s[2], e[1], e[2], PURPOSE_1>>

InitDates ==
    /\ variant = "storage"
    /\ \E s \in StartFields, e \in EndFields :
          input_file = [exists |-> TRUE, decodable_by |-> {"shift_jis", "cp932"},
                        head |-> <<>>, rows |-> <<H_FULL, R_HDR_A, DatedRow(s, e), R_DATA>>]
    /\ pc = "read"
    /\ lines = <<>>
    /\ i = 0
    /\ current_kaigishitsu = InitialLabel
    /\ result_rows = <<>>
    /\ result_src = <<>>
    /\ last_event = "none"
    /\ outcome = "none"
    /\ output_file = [exists |-> FALSE, rows |-> <<>>]
    /\ csv_c = NoText
    /\ entry = "convert_csv"
    /\ stale_output = FALSE
    /\ validator = "not_run"
    /\ dt_in = <<>>
    /\ dt_out = None

\* the steps convert_csv takes on such an input
NextDates ==
    \/ ReadInputOk
    \/ HeaderSchema
    \/ SectionHeaderRow
    \/ EmitStorage
    \/ WriteOutput

SpecDates == InitDates /\ [][NextDates]_vars

(***************************************************************************)
(* Whole runs of the three scripts from their main block, on files read as *)
(* UTF-8, with and without byte-order marks, and on files only the other   *)
(* encodings read, with and without a file already at the output path.     *)
(***************************************************************************)
RECURSIVE Boms(_)
Boms(n) == IF n = 0 THEN <<>> ELSE <<BOM>> \o Boms(n - 1)

\* one parsed input for each way a run can go
RunRows ==
    {<<>>, <<H_FULL>>, <<H_MISSING>>,
     <<H_FULL, R_HDR_A, R_DATA>>,
     <<H_FULL, R_HDR_A, R_SHORT, R_DATA>>,
     <<H_FULL, R_EMPTY, R_UNMATCHED>>,
     <<H_NOPURPOSE, R_HDR_B, R_CIRC>>}

\* U+FEFF is a character of UTF-8 text only: shift_jis and cp932 decode no
\* byte sequence to it
RunFiles ==
    {[exists |-> FALSE, decodable_by |-> {}, head |-> <<>>, rows |-> <<>>],
     [exists |-> TRUE, decodable_by |-> {}, head |-> <<>>, rows |-> <<>>]}
    \cup {[exists |-> TRUE, decodable_by |-> {"shift_jis", "cp932"},
           head |-> <<>>, rows |-> r] : r \in RunRows}
    \cup {[exists |-> TRUE, decodable_by |-> e, head |-> Boms(n), rows |-> r] :
            e \in {{"utf-8"}, {"utf-8", "shift_jis", "cp932"}},
            n \in 0..MaxBom, r \in RunRows}

InitRuns ==
    /\ variant \in Variants
    /\ input_file \in RunFiles
    /\ pc = "main"
    /\ lines = <<>>
    /\ i = 0
    /\ current_kaigishitsu = InitialLabel
    /\ result_rows = <<>>
    /\ result_src = <<>>
    /\ last_event = "none"
    /\ outcome = "none"
    /\ output_file = [exists |-> FALSE, rows |-> <<>>]
    /\ csv_c = NoText
    /\ entry = "main"
    /\ stale_output \in BOOLEAN
    /\ validator = "not_run"
    /\ dt_in = <<>>
    /\ dt_out = None

\* if not os.path.exists(input_file_path): sys.exit(1)
MainInputMissing ==
    /\ pc = "main"
    /\ ~input_file.exists
    /\ pc' = "exit"
    /\ outcome' = "not_found"
    /\ UNCHANGED <<variant, input_file, lines, i, current_kaigishitsu, result_rows,
                   result_src, last_event, output_file, dt_in, dt_out, csv_c, mainVars>>

\* convert_csv(input_file_path, output_file_path)
MainCallsConvert ==
    /\ pc = "main"
    /\ input_file.exists
    /\ pc' = "read"
    /\ UNCHANGED <<variant, input_file, lines, i, current_kaigishitsu, result_rows,
                   result_src, last_event, outcome, output_file, dt_in, dt_out, csv_c,
                   mainVars>>

\* os.path.exists(output_file_path)
output_path_exists == IF stale_output THEN TRUE ELSE output_file.exists

\* main_step4_Claude: if os.path.exists(output_file_path):
\* validate_datetime_format(output_file_path), which opens the file for reading
ValidateOutput ==
    /\ pc = "done"
    /\ entry = "main"
    /\ variant = "storage"
    /\ output_path_exists
    /\ validator' = "ran"
    /\ pc' = "exit"
    /\ UNCHANGED <<variant, input_file, lines, i, current_kaigishitsu, result_rows,
                   result_src, last_event, outcome, output_file, dt_in, dt_out, csv_c,
                   entry, stale_output>>

\* the main block ends with no validation: that of main_step1 and main_step3
\* has none
MainEnds ==
    /\ pc = "done"
    /\ entry = "main"
    /\ (IF variant = "storage" THEN ~output_path_exists ELSE TRUE)
    /\ pc' = "exit"
    /\ UNCHANGED <<variant, input_file, lines, i, current_kaigishitsu, result_rows,
                   result_src, last_event, outcome, output_file, dt_in, dt_out, csv_c,
                   mainVars>>

NextRuns ==
    \/ MainInputMissing
    \/ MainCallsConvert
    \/ ReadInputFails
    \/ ReadInputEmpty
    \/ ReadInputOk
    \/ HeaderPassthrough
    \/ HeaderSchema
    \/ HeaderMissingColumn
    \/ SkipEmptyRow
    \/ SectionHeaderRow
    \/ EmitPassthrough
    \/ EmitDisplay
    \/ EmitStorage
    \/ SkipIndexError
    \/ SkipUnmatched
    \/ FinishNoData
    \/ WriteOutput
    \/ ValidateOutput
    \/ MainEnds

SpecRuns == InitRuns /\ [][NextRuns]_vars

(***************************************************************************)
(* Vocabulary of the properties, stated on the input as it was read.       *)
(***************************************************************************)
\* the k-th row after the header row, k counted from 0
InputRow(k) == input_file.rows[k + 2]

InputHeader == input_file.rows[1]

Blank(field) == \A k \in 1..Len(field) : field[k] \in Whitespace

\* at least 2 fields, field[1] has the room word, at most 2 fields or field[2] blank
HeaderShaped(row) ==
    /\ Len(row) >= 2
    /\ Contains(row[2], KAIGISHITSU)
    /\ (IF Len(row) <= 2 THEN TRUE ELSE Blank(row[3]))

DataShaped(row) == Len(row) > 2 /\ ~Blank(row[3])

\* index of the closest section-header row before row n, or -1
LastHeaderBefore(n) ==
    IF \E h \in 0..(n - 1) : HeaderShaped(InputRow(h))
    THEN CHOOSE h \in 0..(n - 1) :
            /\ HeaderShaped(InputRow(h))
            /\ \A g \in (h + 1)..(n - 1) : ~HeaderShaped(InputRow(g))
    ELSE -1

\* field[1] of that row without its surrounding whitespace, or None
LabelBefore(n) ==
    IF LastHeaderBefore(n) = -1 THEN None
    ELSE Strip(InputRow(LastHeaderBefore(n))[2])

Running == pc \in {"loop", "done"} /\ outcome \notin {"unreadable", "empty"}

HasCircled(field) == \E k \in 1..Len(field), c \in 1..10 : field[k] = CircledDigits[c]

FieldAt(row, name) == row[ColumnIndex(InputHeader, name) + 1]

LongEnough(row) ==
    \A name \in {KAISHI_NICHI, KAISHI_JIKAN, SHURYO_NICHI, SHURYO_JIKAN} :
        ColumnIndex(InputHeader, name) < Len(row)

LacksRequired(header) ==
    \E name \in {KAISHI_NICHI, KAISHI_JIKAN, SHURYO_NICHI, SHURYO_JIKAN} :
        \A k \in 1..Len(header) : header[k] # name

(***************************************************************************)
(* C1: every row the loop consumes is treated as a section header (the     *)
(* label becomes its trimmed field[1], no output row is added) exactly     *)
(* when the row itself has at least 2 fields, field[1] contains the room   *)
(* word and field[2] is absent or blank, whatever the label and the rows   *)
(* before it; any other row leaves the label alone.                        *)
(***************************************************************************)
C1_SectionHeaderIff ==
    [][i' = i + 1 =>
        LET row == InputRow(i)
        IN  /\ (last_event' = "section") <=> HeaderShaped(row)
            /\ last_event' = "section" =>
                    /\ current_kaigishitsu' = Strip(row[2])
                    /\ result_rows' = result_rows
            /\ last_event' # "section" =>
                    current_kaigishitsu' = current_kaigishitsu]_vars

\* a header row met after data rows were already emitted under another label
C1_Witness ==
    /\ last_event = "section"
    /\ Len(result_rows) >= 2
    /\ current_kaigishitsu # LabelBefore(i - 1)

(***************************************************************************)
(* C2: while the label is unset the output holds no data row; every data   *)
(* row comes from an input row with a section-header row before it; and a  *)
(* run that has consumed only non-header rows is where it started: no      *)
(* label, no data row.                                                     *)
(***************************************************************************)
C2_NoDataBeforeHeader ==
    Running =>
        /\ ~LabelSet(current_kaigishitsu) => Len(result_rows) <= 1
        /\ \A k \in 1..Len(result_src) :
              \E h \in 0..(result_src[k] - 1) : HeaderShaped(InputRow(h))
        /\ (\A n \in 0..(i - 1) : ~HeaderShaped(InputRow(n))) =>
              /\ current_kaigishitsu = None
              /\ result_src = <<>>
              /\ Len(result_rows) <= 1

\* a data-shaped row before the first header was dropped, a later one emitted
C2_Witness ==
    /\ pc = "done"
    /\ Len(input_file.rows) = 4
    /\ DataShaped(InputRow(0)) /\ ~HeaderShaped(InputRow(0))
    /\ result_src = <<2>>

\* what each variant writes in the room-name column for a label
RoomColumn(label) ==
    IF variant = "passthrough" THEN replace_circled(label)
    ELSE IF variant = "display" THEN replace_circled(strip_facility(label))
    ELSE replace_circled(Strip(strip_facility(label)))

(***************************************************************************)
(* C3: the label is always the trimmed field[1] of the closest             *)
(* section-header row consumed so far (unset only while there is none),    *)
(* and the room-name column of each data row is made from the label of the *)
(* closest section-header row before the row it comes from.                *)
(***************************************************************************)
C3_LabelFromClosestHeader ==
    Running =>
        /\ current_kaigishitsu = LabelBefore(i)
        /\ LastHeaderBefore(i) # -1 => LabelSet(current_kaigishitsu)
        /\ \A k \in 1..Len(result_src) :
              result_rows[k + 1][1] = RoomColumn(LabelBefore(result_src[k]))

\* two different headers, then a data row that takes the second one's label
C3_Witness ==
    /\ pc = "done"
    /\ result_src = <<2>>
    /\ HeaderShaped(InputRow(0))
    /\ HeaderShaped(InputRow(1))
    /\ Strip(InputRow(0)[2]) # Strip(InputRow(1)[2])

(***************************************************************************)
(* C4 as stated: when the output is written, every data row has as many    *)
(* fields as the output header row.                                        *)
(***************************************************************************)
C4_SameWidthAsHeader ==
    output_file.exists =>
        \A k \in 2..Len(output_file.rows) :
            Len(output_file.rows[k]) = Len(output_file.rows[1])

(***************************************************************************)
(* C4 amended: in the display and storage variants every written data row  *)
(* has as many fields as the output header row; in the passthrough variant *)
(* the output header has one field more than the input header and each     *)
(* data row one field more than the input row it comes from.               *)
(***************************************************************************)
C4_WidthPerVariant ==
    output_file.exists =>
        IF variant = "passthrough"
        THEN /\ Len(output_file.rows[1]) = Len(InputHeader) + 1
             /\ \A k \in 1..Len(result_src) :
                   Len(output_file.rows[k + 1]) = Len(InputRow(result_src[k])) + 1
        ELSE \A k \in 2..Len(output_file.rows) :
                Len(output_file.rows[k]) = Len(output_file.rows[1])

\* display output from an input with no purpose column and a row wider than the header
C4_Witness ==
    /\ output_file.exists
    /\ variant = "display"
    /\ InputHeader = H_NOPURPOSE
    /\ \E k \in 1..Len(result_src) : Len(InputRow(result_src[k])) > Len(InputHeader)

(***************************************************************************)
(* C5 as stated: in the display variant each data row is the label as the  *)
(* section-header row set it, start date and time joined by a space, end   *)
(* date and time joined by a space, and the cross mark.                    *)
(***************************************************************************)
C5_DisplayRowVerbatim ==
    (Running /\ variant = "display") =>
        \A k \in 1..Len(result_src) :
            LET row == InputRow(result_src[k])
            IN  result_rows[k + 1] =
                    <<LabelBefore(result_src[k]),
                      FieldAt(row, KAISHI_NICHI) \o <<" ">> \o FieldAt(row, KAISHI_JIKAN),
                      FieldAt(row, SHURYO_NICHI) \o <<" ">> \o FieldAt(row, SHURYO_JIKAN),
                      BATSU>>

(***************************************************************************)
(* C5 amended: in the display variant every data row long enough for the   *)
(* four columns yields one output row, which is the label with the two     *)
(* facility names removed, the start and the end strings, each of the      *)
(* three with the circled digits replaced, and the cross mark.             *)
(***************************************************************************)
C5_DisplayRowSanitised ==
    (Running /\ variant = "display") =>
        /\ \A k \in 1..Len(result_src) :
              LET row == InputRow(result_src[k])
              IN  result_rows[k + 1] =
                    <<replace_circled(strip_facility(LabelBefore(result_src[k]))),
                      replace_circled(FieldAt(row, KAISHI_NICHI) \o <<" ">>
                                      \o FieldAt(row, KAISHI_JIKAN)),
                      replace_circled(FieldAt(row, SHURYO_NICHI) \o <<" ">>
                                      \o FieldAt(row, SHURYO_JIKAN)),
                      BATSU>>
        /\ \A n \in 0..(i - 1) :
              (/\ LabelBefore(n) # None
               /\ ~HeaderShaped(InputRow(n))
               /\ DataShaped(InputRow(n))
               /\ LongEnough(InputRow(n)))
              => \E k \in 1..Len(result_src) : result_src[k] = n
        /\ Len(result_rows) = Len(result_src) + 1

\* a row with circled digits under a label that carries the facility names,
\* with and without a purpose column in the input
C5_Witness ==
    /\ variant = "display"
    /\ outcome = "written"
    /\ InputHeader = H_FULL
    /\ \E k \in 1..Len(result_src) :
          /\ InputRow(result_src[k]) = R_CIRC
          /\ LabelBefore(result_src[k]) = Strip(ROOM_B)

(***************************************************************************)
(* C6: no field of an emitted data row holds a circled digit, in any       *)
(* variant.                                                                *)
(***************************************************************************)
C6_NoCircledDigitEmitted ==
    Running =>
        \A k \in 2..Len(result_rows) :
            \A j \in 1..Len(result_rows[k]) : ~HasCircled(result_rows[k][j])

(***************************************************************************)
(* C7: in the display and storage variants, a header row lacking one of    *)
(* the four required column names ends the run with the missing-column     *)
(* outcome, no row consumed, no label set, no output file.                 *)
(***************************************************************************)
C7_MissingColumnAborts ==
    (/\ variant # "passthrough"
     /\ Running
     /\ LacksRequired(InputHeader)) =>
        /\ pc = "done"
        /\ outcome = "missing_column"
        /\ i = 0
        /\ last_event = "none"
        /\ current_kaigishitsu = None
        /\ result_src = <<>>
        /\ ~output_file.exists

\* the input had a section header and a data row after the deficient header
C7_Witness ==
    /\ outcome = "missing_column"
    /\ Len(lines) = 4
    /\ HeaderShaped(InputRow(0))
    /\ DataShaped(InputRow(1))

\* a finished run on a readable input of one row
HeaderOnlyRun ==
    /\ pc = "done"
    /\ detected_encoding(input_file) # "None"
    /\ Len(input_file.rows) = 1

(***************************************************************************)
(* C8 as stated: in every variant a run on a header-only input ends with   *)
(* the no-data outcome and no output file; the output file is written only *)
(* when a data row was produced.                                           *)
(***************************************************************************)
C8_HeaderOnlyNoData ==
    /\ HeaderOnlyRun => (outcome = "no_data" /\ ~output_file.exists)
    /\ output_file.exists => Len(result_src) >= 1

(***************************************************************************)
(* C8 amended: a run on a header-only input writes no output file and ends *)
(* with the no-data outcome, except that in the display and storage        *)
(* variants a header lacking a required column ends it with the            *)
(* missing-column outcome; the output file is written only when a data row *)
(* was produced.                                                           *)
(***************************************************************************)
C8_HeaderOnlyNoOutput ==
    /\ HeaderOnlyRun =>
          /\ ~output_file.exists
          /\ outcome = IF variant # "passthrough" /\ LacksRequired(InputHeader)
                       THEN "missing_column"
                       ELSE "no_data"
    /\ output_file.exists =>
          /\ Len(result_src) >= 1
          /\ Len(output_file.rows) = Len(result_src) + 1

C8_Witness ==
    /\ HeaderOnlyRun
    /\ variant = "display"
    /\ outcome = "no_data"

(***************************************************************************)
(* C9: a run on a path with no file ends with the input-file-not-found     *)
(* message and writes nothing.                                             *)
(***************************************************************************)
C9_MissingFileReported ==
    (pc = "done" /\ ~input_file.exists) =>
        (outcome = "not_found" /\ ~output_file.exists)

\* the calendar, stated apart from datetime
GregorianDays(y, m) ==
    CASE m \in {1, 3, 5, 7, 8, 10, 12} -> 31
      [] m \in {4, 6, 9, 11} -> 30
      [] OTHER -> IF (y % 400 = 0) \/ (y % 4 = 0 /\ y % 100 # 0) THEN 29 ELSE 28

NextCalendarDay(y, m, d) ==
    IF d < GregorianDays(y, m) THEN <<y, m, d + 1>>
    ELSE IF m < 12 THEN <<y, m + 1, 1>>
    ELSE <<y + 1, 1, 1>>

RECURSIVE Decimal(_)
Decimal(n) ==
    IF n < 10 THEN <<Digits[n + 1]>>
    ELSE Decimal(n \div 10) \o <<Digits[(n % 10) + 1]>>

Two(n) == IF n < 10 THEN <<"0">> \o Decimal(n) ELSE Decimal(n)

NextDayMidnight(y, m, d) ==
    LET t == NextCalendarDay(y, m, d)
    IN  Decimal(t[1]) \o <<"/">> \o Two(t[2]) \o <<"/">> \o Two(t[3])
        \o <<" ", "0", "0", ":", "0", "0">>

\* the date of a string of the form YYYY/MM/DD 24:00, <<0, 0, 0>> for any other
StatedDate(s) ==
    IF /\ Len(s) = 16
       /\ SubSeq(s, 11, 16) = <<" ">> \o TIME_24
       /\ s[5] = "/"
       /\ s[8] = "/"
       /\ \A k \in {1, 2, 3, 4, 6, 7, 9, 10} : IsDigit(s[k])
    THEN <<NumVal(SubSeq(s, 1, 4)), NumVal(SubSeq(s, 6, 7)), NumVal(SubSeq(s, 9, 10))>>
    ELSE <<0, 0, 0>>

IsCalendarDate(t) ==
    /\ t[1] >= 1
    /\ t[2] \in 1..12
    /\ t[3] >= 1
    /\ t[3] <= GregorianDays(t[1], t[2])

(***************************************************************************)
(* C10 as stated: for a valid calendar date followed by " 24:00"           *)
(* fix_time_format returns the next calendar day followed by " 00:00";     *)
(* a string without " 24:00" is returned as it is.                         *)
(***************************************************************************)
C10_FoldsToNextDay ==
    dt_out # None =>
        LET t == StatedDate(dt_in)
        IN  /\ IsCalendarDate(t) => dt_out = NextDayMidnight(t[1], t[2], t[3])
            /\ ~Contains(dt_in, <<" ">> \o TIME_24) => dt_out = dt_in

(***************************************************************************)
(* C10 amended: as stated for every date before 9999/12/31; for            *)
(* "9999/12/31 24:00", whose next day no date can hold, the result is the  *)
(* input.                                                                  *)
(***************************************************************************)
C10_FoldsToNextDayUntilMax ==
    dt_out # None =>
        LET t == StatedDate(dt_in)
        IN  /\ IsCalendarDate(t) =>
                  dt_out = IF t = <<9999, 12, 31>>
                           THEN dt_in
                           ELSE NextDayMidnight(t[1], t[2], t[3])
            /\ ~Contains(dt_in, <<" ">> \o TIME_24) => dt_out = dt_in

\* the year rollover of the specification's example
C10_Witness ==
    /\ dt_in = DateStr(2024, 12, 31) \o <<" ">> \o TIME_24
    /\ dt_out = DateStr(2025, 1, 1) \o <<" ", "0", "0", ":", "0", "0">>

\* the composed start and end strings of an input row
ComposedStart(row) == FieldAt(row, KAISHI_NICHI) \o <<" ">> \o FieldAt(row, KAISHI_JIKAN)

ComposedEnd(row) == FieldAt(row, SHURYO_NICHI) \o <<" ">> \o FieldAt(row, SHURYO_JIKAN)

\* year, month, day, hour and minute of a string of the form YYYY/MM/DD HH:MM,
\* all zero for any other
StatedDateTime(s) ==
    IF /\ Len(s) = 16
       /\ s[5] = "/"
       /\ s[8] = "/"
       /\ s[11] = " "
       /\ s[14] = ":"
       /\ \A k \in {1, 2, 3, 4, 6, 7, 9, 10, 12, 13, 15, 16} : IsDigit(s[k])
    THEN <<NumVal(SubSeq(s, 1, 4)), NumVal(SubSeq(s, 6, 7)), NumVal(SubSeq(s, 9, 10)),
           NumVal(SubSeq(s, 12, 13)), NumVal(SubSeq(s, 15, 16))>>
    ELSE <<0, 0, 0, 0, 0>>

\* a calendar date with a time of day from 00:00 to 23:59, or with 24:00
ValidStated(t) ==
    /\ IsCalendarDate(<<t[1], t[2], t[3]>>)
    /\ IF t[4] = 24 THEN t[5] = 0 ELSE (t[4] \in 0..23 /\ t[5] \in 0..59)

\* 24:00 read as 00:00 of the next calendar day
Folded(t) ==
    IF t[4] = 24 THEN NextCalendarDay(t[1], t[2], t[3]) \o <<0, 0>> ELSE t

IsoText(t) ==
    Decimal(t[1]) \o <<"-">> \o Two(t[2]) \o <<"-">> \o Two(t[3]) \o <<"T">>
        \o Two(t[4]) \o <<":">> \o Two(t[5])
        \o <<":", "0", "0", "+", "0", "9", ":", "0", "0">>

LastMoment == <<9999, 12, 31, 24, 0>>

(***************************************************************************)
(* C11 as stated: in the storage variant every emitted row whose composed  *)
(* start (end) string is a valid YYYY/MM/DD HH:MM value, 24:00 included,   *)
(* carries in start_datetime (end_datetime) the text                       *)
(* YYYY-MM-DDTHH:MM:00+09:00 of the same date, hour and minute, taken      *)
(* after 24:00 was folded into the next day.                               *)
(***************************************************************************)
C11_IsoRendering ==
    (variant = "storage" /\ Running) =>
        \A k \in 1..Len(result_src) :
            LET row == InputRow(result_src[k])
                s == StatedDateTime(ComposedStart(row))
                e == StatedDateTime(ComposedEnd(row))
            IN  /\ ValidStated(s) => result_rows[k + 1][2] = IsoText(Folded(s))
                /\ ValidStated(e) => result_rows[k + 1][3] = IsoText(Folded(e))

(***************************************************************************)
(* C11 amended: as stated for every valid value but "9999/12/31 24:00",    *)
(* whose next day no date can hold; that one is emitted as it was          *)
(* composed.                                                               *)
(***************************************************************************)
C11_IsoRenderingUntilMax ==
    (variant = "storage" /\ Running) =>
        \A k \in 1..Len(result_src) :
            LET row == InputRow(result_src[k])
                s == StatedDateTime(ComposedStart(row))
                e == StatedDateTime(ComposedEnd(row))
            IN  /\ ValidStated(s) =>
                      result_rows[k + 1][2] =
                          IF s = LastMoment THEN ComposedStart(row) ELSE IsoText(Folded(s))
                /\ ValidStated(e) =>
                      result_rows[k + 1][3] =
                          IF e = LastMoment THEN ComposedEnd(row) ELSE IsoText(Folded(e))

\* a year rollover at the start and an ordinary time of day at the end, written
C11_Witness ==
    /\ variant = "storage"
    /\ outcome = "written"
    /\ Len(input_file.rows) = 4
    /\ ComposedStart(InputRow(1)) = DateStr(2024, 12, 31) \o <<" ">> \o TIME_24
    /\ ComposedEnd(InputRow(1)) = DateStr(2024, 2, 29) \o <<" ">> \o TimeStr(23, 59)
    /\ output_file.rows[2][2] = IsoText(<<2025, 1, 1, 0, 0>>)
    /\ output_file.rows[2][3] = IsoText(<<2024, 2, 29, 23, 59>>)

\* the text has been decoded and the byte-order marks seen to
TextRead ==
    /\ pc \notin {"main", "read", "idle"}
    /\ outcome \notin {"unreadable", "not_found"}

(***************************************************************************)
(* C12 as stated: once the text is read, in every variant and under        *)
(* whichever encoding, a text that began with byte-order marks has lost    *)
(* exactly the first of them (a second one is now the first character),    *)
(* and a text that did not begin with one is unchanged.                    *)
(***************************************************************************)
C12_OneBomRemoved ==
    TextRead =>
        /\ csv_c.rows = input_file.rows
        /\ csv_c.head = IF input_file.head = <<>> THEN <<>> ELSE Tail(input_file.head)

(***************************************************************************)
(* C12 amended: once the text is read, in every variant and under          *)
(* whichever encoding, every byte-order mark the text began with is        *)
(* removed, so the text handed to the parser never begins with one, and    *)
(* what follows them is unchanged; a text that did not begin with one is   *)
(* unchanged.                                                              *)
(***************************************************************************)
C12_LeadingBomsRemoved ==
    TextRead =>
        /\ csv_c.rows = input_file.rows
        /\ csv_c.head = <<>>
        /\ pc = "header" => lines = input_file.rows
        /\ outcome = "empty" <=> input_file.rows = <<>>

\* a text with two byte-order marks before its header, converted
C12_Witness ==
    /\ input_file.head = <<BOM, BOM>>
    /\ variant = "storage"
    /\ outcome = "written"
    /\ lines = input_file.rows
    /\ csv_c.head = <<>>

\* the string holds " 24:00" and what precedes its first space is not a date
\* that has a next day
FoldFails(s) ==
    /\ Contains(s, TIME_2400)
    /\ LET date_obj == ParseDate(BeforeFirstSpace(s))
       IN  IF date_obj.ok
           THEN Ymd2Ord(date_obj.y, date_obj.m, date_obj.d) = MaxOrdinal
           ELSE TRUE

\* the string, after the fold when it applies, is rejected by the parse
ParseFails(s) == ~ParseDateTime(fix_time_format(s)).ok

\* row n was consumed under a label as a data row with its datetime columns
Eligible(n) ==
    /\ LabelBefore(n) # None
    /\ ~HeaderShaped(InputRow(n))
    /\ DataShaped(InputRow(n))
    /\ LongEnough(InputRow(n))

(***************************************************************************)
(* C13: fix_time_format and format_for_supabase hand back their argument   *)
(* whenever the 24:00 fold or the parse fails; in the storage variant the  *)
(* row of such a string is emitted all the same, carrying the composed     *)
(* string unchanged, and the rows after it are consumed and emitted: the   *)
(* run ends having consumed every row and emitted every data row.          *)
(***************************************************************************)
C13_FailureKeepsInput ==
    (variant = "storage" /\ Running) =>
        /\ \A k \in 1..Len(result_src) :
              LET row == InputRow(result_src[k])
                  s == ComposedStart(row)
                  e == ComposedEnd(row)
              IN  /\ FoldFails(s) => fix_time_format(s) = s
                  /\ FoldFails(e) => fix_time_format(e) = e
                  /\ (FoldFails(s) \/ ParseFails(s)) => result_rows[k + 1][2] = s
                  /\ (FoldFails(e) \/ ParseFails(e)) => result_rows[k + 1][3] = e
        /\ \A n \in 0..(i - 1) :
              Eligible(n) => \E k \in 1..Len(result_src) : result_src[k] = n
        /\ outcome \in {"written", "no_data"} => i = Len(input_file.rows) - 1

\* 30 February with 24:00 and an end time that is no time: both kept as
\* composed, and the row after them emitted
C13_Witness ==
    /\ variant = "storage"
    /\ outcome = "written"
    /\ Len(input_file.rows) = 4
    /\ ComposedStart(InputRow(1)) = DateStr(2024, 2, 30) \o <<" ">> \o TIME_24
    /\ ComposedEnd(InputRow(1)) = DATE_1 \o <<" ">> \o X
    /\ output_file.rows[2][2] = ComposedStart(InputRow(1))
    /\ output_file.rows[2][3] = ComposedEnd(InputRow(1))
    /\ result_src = <<1, 2>>
    /\ Len(output_file.rows) = 3

\* the next row passes the data-row test and lacks one of the four datetime
\* columns
ShortDataRowNext ==
    /\ pc = "loop"
    /\ i < Len(input_file.rows) - 1
    /\ LabelBefore(i) # None
    /\ ~HeaderShaped(InputRow(i))
    /\ DataShaped(InputRow(i))
    /\ ~LongEnough(InputRow(i))

(***************************************************************************)
(* C14: in the display and storage variants the step that consumes a row   *)
(* passing the data-row test but too short for one of the four datetime    *)
(* columns moves on to the next row and changes nothing else: no output    *)
(* row, the same label, the run not ended, nothing written.  So the rows   *)
(* emitted so far are always exactly the consumed data rows that have the  *)
(* four columns, in input order, and the label is that of the closest      *)
(* section header, as they would be had the short rows not been there.     *)
(***************************************************************************)
C14_ShortRowSkipped ==
    /\ [][(variant \in {"display", "storage"} /\ ShortDataRowNext) =>
            /\ i' = i + 1
            /\ pc' = "loop"
            /\ outcome' = outcome
            /\ current_kaigishitsu' = current_kaigishitsu
            /\ result_rows' = result_rows
            /\ result_src' = result_src
            /\ lines' = lines
            /\ output_file' = output_file]_vars
    /\ []((variant \in {"display", "storage"} /\ Running /\ outcome # "missing_column") =>
            /\ current_kaigishitsu = LabelBefore(i)
            /\ \A n \in 0..(i - 1) :
                  Eligible(n) <=> \E k \in 1..Len(result_src) : result_src[k] = n
            /\ \A k \in 1..(Len(result_src) - 1) : result_src[k] < result_src[k + 1]
            /\ outcome \in {"written", "no_data"} => i = Len(input_file.rows) - 1)

\* a short row between a section header and a data row: only the latter is
\* written
C14_Witness ==
    /\ variant = "storage"
    /\ outcome = "written"
    /\ input_file.rows = <<H_FULL, R_HDR_A, R_SHORT, R_DATA>>
    /\ result_src = <<2>>
    /\ Len(output_file.rows) = 2

\* the run ended before anything was written
FatalOutcome == outcome \in {"unreadable", "empty", "missing_column", "no_data"}

(***************************************************************************)
(* C15: in a run of the storage script's main block the validator is       *)
(* called only when the conversion of that run wrote the output file, and  *)
(* the file then still holds the rows the conversion wrote; in a run that  *)
(* ended with a fatal outcome it is not called, whether or not a file was  *)
(* at the output path before the run.                                      *)
(***************************************************************************)
C15_ValidatorOnlyAfterWrite ==
    (variant = "storage" /\ entry = "main") =>
        /\ validator = "ran" =>
              /\ outcome = "written"
              /\ output_file = [exists |-> TRUE, rows |-> result_rows]
        /\ FatalOutcome => validator = "not_run"

====
